---- MODULE Spec2Model ----
(***************************************************************************)
(* Model of the StockCal refresh pipeline (auto_update*.py) and of the     *)
(* API (main.py, main_v1_backup.py).                                       *)
(*                                                                         *)
(* One behaviour is one run of update_data_files() of one script variant,  *)
(* with read-API requests that load the same data files (Spec) or with an  *)
(* analysis request served afterwards (SpecServe).  The event filter and   *)
(* the JSON extractors are also run alone, as functions of their input     *)
(* (SpecFilter, SpecExtract).  The API is further run without a cycle      *)
(* (SpecApi), with analysis requests in flight together (SpecConcurrent),  *)
(* with the prompts of the analyze and regenerate endpoints side by side   *)
(* (SpecPrompt) and with a watchlist request (SpecWatch); SpecClock is one *)
(* run of the script with its three clock reads while the clock runs.      *)
(***************************************************************************)
EXTENDS Integers, Sequences, FiniteSets, TLC

VARIABLES
    script,     \* which script variant runs the cycle
    apiKey,     \* GEMINI_API_KEY is set in the environment
    now,        \* the calendar day datetime.now() falls on, <<y, m, d>>
    pc,         \* position inside update_data_files
    cur,        \* index (in Order) of the dataset being processed
    batch,      \* locals hot_trends / strategies / events of update_data_files
    pending,    \* elements json.dump still has to write to the open file
    files,      \* the three data files (the blob store)
    pre,        \* history: the content of the files when the cycle started
    stage,      \* history: how far each dataset got in this cycle
    result,     \* return value of update_data_files ("none" while running)
    resp,       \* the last response of a read-API GET
    calls,      \* history: generate_content calls of the cycle, per dataset
    probe,      \* a parsed events list and what the filter and sort make of it
    xcase,      \* a response text and what each extractor makes of it
    req,        \* the analysis request the API handled last
    api,        \* analysis requests in flight and the service calls started
    run,        \* the clock reads of one run of generate_future_events
    wl,         \* the watchlist request the API handled last
    ask         \* a record and the prompts the two endpoints of its kind send

vars == <<script, apiKey, now, pc, cur, batch, pending, files, pre, stage,
          result, resp, calls, probe, xcase, req, api, run, wl, ask>>

----------------------------------------------------------------------------
(* Bounds *)

\* analysis requests in flight at the same time
MaxRequests == 2

\* midnights that pass during one run of the script
MaxTicks == 1

\* stocks in one watchlist request; the handler queries ten at most
MaxStocks == 11

MaxTrends == 1
MaxStrategies == 1
MaxEvents == 2

----------------------------------------------------------------------------
(* Datasets and script variants *)

Kinds == {"hot_trends", "strategies", "events"}

Order == <<"hot_trends", "strategies", "events">>

Scripts == {"auto_update", "auto_update_robust"}

----------------------------------------------------------------------------
(* Calendar dates and their text form *)

Digits == <<"0", "1", "2", "3", "4", "5", "6", "7", "8", "9">>

IsDigit(c) == \E i \in 1..10 : Digits[i] = c

DigitVal(c) == (CHOOSE i \in 1..10 : Digits[i] = c) - 1

\* code point of the characters a date string is made of
Ord(c) == IF c = "-" THEN 45 ELSE 48 + DigitVal(c)

Fmt2(n) == <<Digits[((n \div 10) % 10) + 1], Digits[(n % 10) + 1]>>

Fmt4(n) == Fmt2(n \div 100) \o Fmt2(n % 100)

\* strftime('%Y-%m-%d')
Strftime(day) == Fmt4(day[1]) \o <<"-">> \o Fmt2(day[2]) \o <<"-">> \o Fmt2(day[3])

IsLeap(y) == (y % 4 = 0 /\ y % 100 # 0) \/ y % 400 = 0

DaysInMonth(y, m) ==
    IF m = 2 THEN (IF IsLeap(y) THEN 29 ELSE 28)
    ELSE IF m \in {4, 6, 9, 11} THEN 30 ELSE 31

RECURSIVE NumVal(_)
NumVal(s) == IF s = <<>> THEN 0
             ELSE 10 * NumVal(SubSeq(s, 1, Len(s) - 1)) + DigitVal(s[Len(s)])

AllDigits(s) == \A i \in 1..Len(s) : IsDigit(s[i])

DashAt(s) == {i \in 1..Len(s) : s[i] = "-"}

NoDate == <<0, 0, 0>>

\* datetime.strptime(s, '%Y-%m-%d'): the year is four digits, month and day
\* are one or two digits, the day must exist in the month; NoDate stands
\* for the ValueError
Strptime(s) ==
    IF Cardinality(DashAt(s)) # 2 THEN NoDate
    ELSE LET i == CHOOSE k \in DashAt(s) : \A l \in DashAt(s) : k <= l
             j == CHOOSE k \in DashAt(s) : \A l \in DashAt(s) : k >= l
             ys == SubSeq(s, 1, i - 1)
             ms == SubSeq(s, i + 1, j - 1)
             ds == SubSeq(s, j + 1, Len(s))
         IN  IF /\ Len(ys) = 4 /\ AllDigits(ys)
                /\ Len(ms) \in {1, 2} /\ AllDigits(ms)
                /\ Len(ds) \in {1, 2} /\ AllDigits(ds)
                /\ NumVal(ms) \in 1..12
                /\ NumVal(ds) \in 1..DaysInMonth(NumVal(ys), NumVal(ms))
             THEN <<NumVal(ys), NumVal(ms), NumVal(ds)>>
             ELSE NoDate

\* a < b for two datetimes at midnight
DayLess(a, b) ==
    \/ a[1] < b[1]
    \/ a[1] = b[1] /\ a[2] < b[2]
    \/ a[1] = b[1] /\ a[2] = b[2] /\ a[3] < b[3]

\* Python's str < str on date strings
RECURSIVE StrLess(_, _)
StrLess(a, b) ==
    IF b = <<>> THEN FALSE
    ELSE IF a = <<>> THEN TRUE
    ELSE IF Ord(Head(a)) # Ord(Head(b)) THEN Ord(Head(a)) < Ord(Head(b))
    ELSE StrLess(Tail(a), Tail(b))

----------------------------------------------------------------------------
(* JSON documents.  An object is a record; a key the object lacks is       *)
(* outside its DOMAIN.  A document is an array of objects, or one object.  *)

Arr(items) == [kind |-> "array", items |-> items]

\* a top-level object with one key, such as {"error": "quota exceeded"}
ErrorObject == [kind |-> "object", items |-> <<>>]

\* text that is not JSON
Garbage == [kind |-> "invalid", items |-> <<>>]

\* a string holding a lone surrogate ("\ud83d"): json.loads accepts it,
\* writing it to a utf-8 file raises UnicodeEncodeError
Surrogate == "\\ud83d"

Has(rec, key) == key \in DOMAIN rec

TrendA ==
    [id |-> "hot-1", name |-> "AI server", strength |-> 90, trend |-> "up",
     stocks |-> "2382,3231", reason |-> "orders", updatedAt |-> "2026-11-15"]

TrendBad == [id |-> "hot-2", name |-> "memory", trend |-> "sideways"]

TrendSurrogate == [TrendA EXCEPT !.id = "hot-3", !.reason = Surrogate]

TrendOld == [TrendA EXCEPT !.name = "shipping", !.updatedAt = "2026-11-14"]

TrendSamples == {TrendA, TrendBad, TrendSurrogate}

StrategyA ==
    [id |-> "st-1", title |-> "follow 5MA", type |-> "bull", desc |-> "d",
     risk |-> "mid", target |-> "AI", updatedAt |-> "2026-11-15"]

StrategyBad == [id |-> "st-2", title |-> "hedge", type |-> "bull"]

StrategyOld == [StrategyA EXCEPT !.title = "wait", !.updatedAt = "2026-11-14"]

StrategySamples == {StrategyA, StrategyBad}

EventFuture ==
    [id |-> "12-10-tsmc", date |-> Strftime(<<2026, 12, 10>>),
     title |-> "TSMC call", market |-> "TW", type |-> "corporate",
     trend |-> "bull", description |-> "d", strategy |-> "s"]

\* same id as EventFuture, the day written without a leading zero
EventUnpadded ==
    [EventFuture EXCEPT !.date = <<"2", "0", "2", "6", "-", "1", "2", "-", "9">>,
                        !.title = "TSMC sales"]

EventPast ==
    [EventFuture EXCEPT !.id = "11-03-cpi", !.date = Strftime(<<2026, 11, 3>>),
                        !.title = "CPI"]

EventNoDate ==
    [id |-> "tbd-gdp", title |-> "GDP", market |-> "TW", type |-> "critical",
     trend |-> "neutral", description |-> "d", strategy |-> "s"]

EventNoMarket ==
    [id |-> "12-18-cbc", date |-> Strftime(<<2026, 12, 18>>),
     title |-> "CBC meeting"]

EventSamples ==
    {EventFuture, EventUnpadded, EventPast, EventNoDate, EventNoMarket}

\* records of the events file left by an earlier run
EventOldFixed ==
    [EventFuture EXCEPT !.id = "fixed-fomc", !.date = Strftime(<<2026, 11, 5>>),
                        !.title = "FOMC (fixed)", !.market = "US"]

EventOldFuture ==
    [EventFuture EXCEPT !.id = "12-01-pmi", !.date = Strftime(<<2026, 12, 1>>),
                        !.title = "PMI"]

SeqsUpTo(S, n) == UNION {[1..k -> S] : k \in 0..n}

\* events dated on the reference day, the day after it, and after the end
\* of the next month
EventToday ==
    [EventFuture EXCEPT !.id = "11-15-ex", !.date = Strftime(<<2026, 11, 15>>),
                        !.title = "ex-dividend"]

EventTomorrow ==
    [EventFuture EXCEPT !.id = "11-16-ppi", !.date = Strftime(<<2026, 11, 16>>),
                        !.title = "PPI"]

EventFar ==
    [EventFuture EXCEPT !.id = "01-20-ces", !.date = Strftime(<<2027, 1, 20>>),
                        !.title = "CES"]

\* a date of the right form that names no day
EventBadDate ==
    [EventFuture EXCEPT !.id = "02-30-x", !.date = Strftime(<<2026, 2, 30>>),
                        !.title = "TBD"]

\* an array element that is a JSON string, not an object; the record
\* stands for the string
JsonString == [scalar |-> "see the calendar"]

IsObject(e) == ~Has(e, "scalar")

\* the elements a parsed events response is made of
FilterSamples ==
    {EventPast, EventToday, EventTomorrow, EventFuture, EventUnpadded,
     EventFar, EventNoDate, EventBadDate, JsonString}

Samples(d) ==
    IF d = "hot_trends" THEN TrendSamples
    ELSE IF d = "strategies" THEN StrategySamples
    ELSE EventSamples

MaxLen(d) ==
    IF d = "hot_trends" THEN MaxTrends
    ELSE IF d = "strategies" THEN MaxStrategies
    ELSE MaxEvents

\* what the service may have written as the JSON part of its answer
Bodies(d) == {Arr(s) : s \in SeqsUpTo(Samples(d), MaxLen(d))}
             \cup {ErrorObject, Garbage}

----------------------------------------------------------------------------
(* The text of a service response: the JSON part (body) with the pieces    *)
(* of text before it (lead) and after it (trail).  A piece is a run of     *)
(* whitespace "ws", a fence of three backquotes "fence", the tag "json"     *)
(* or commentary "prose".                                                  *)

Text(lead, body, trail) == [lead |-> lead, body |-> body, trail |-> trail]

Wrappings ==
    { <<<<>>, <<>>>>,                                   \* the JSON alone
      <<<<"fence", "json", "ws">>, <<"ws", "fence">>>>,      \* fenced, with the json tag
      <<<<"fence", "ws">>, <<"ws", "fence">>>>,              \* fenced, no tag
      <<<<"ws", "fence", "json", "ws">>, <<"ws", "fence", "ws">>>>,
      <<<<"prose", "ws">>, <<>>>> }                      \* commentary first

Texts(d) == {Text(w[1], b, w[2]) : w \in Wrappings, b \in Bodies(d)}

\* what client.models.generate_content does: it raises, or it returns a
\* response whose text is None, or one with a text
Outcomes(d) ==
    {[res |-> "raise", text |-> Text(<<>>, Garbage, <<>>)],
     [res |-> "none", text |-> Text(<<>>, Garbage, <<>>)]}
    \cup {[res |-> "text", text |-> t] : t \in Texts(d)}

RECURSIVE LStrip(_)
LStrip(s) == IF s # <<>> /\ Head(s) = "ws" THEN LStrip(Tail(s)) ELSE s

RECURSIVE RStrip(_)
RStrip(s) == IF s # <<>> /\ s[Len(s)] = "ws"
             THEN RStrip(SubSeq(s, 1, Len(s) - 1)) ELSE s

\* str.strip()
Strip(t) == [t EXCEPT !.lead = LStrip(@), !.trail = RStrip(@)]

StartsWithJsonFence(t) ==
    Len(t.lead) >= 2 /\ t.lead[1] = "fence" /\ t.lead[2] = "json"

StartsWithFence(t) == Len(t.lead) >= 1 /\ t.lead[1] = "fence"

EndsWithFence(t) == Len(t.trail) >= 1 /\ t.trail[Len(t.trail)] = "fence"

CutJsonFence(t) == [t EXCEPT !.lead = SubSeq(@, 3, Len(@))]

CutFence(t) == [t EXCEPT !.lead = Tail(@)]

CutEndFence(t) == [t EXCEPT !.trail = SubSeq(@, 1, Len(@) - 1)]

ParseError == [kind |-> "error", items |-> <<>>]

\* json.loads: the text must be one JSON document and nothing else but
\* whitespace
JsonLoads(t) ==
    IF LStrip(t.lead) = <<>> /\ RStrip(t.trail) = <<>> /\ t.body.kind # "invalid"
    THEN t.body ELSE ParseError

\* the extraction written inline in generate_* of auto_update.py
ExtractInline(text) ==
    LET t0 == Strip(text)
        t1 == IF StartsWithJsonFence(t0) THEN CutJsonFence(t0) ELSE t0
        t2 == IF StartsWithFence(t1) THEN CutFence(t1) ELSE t1
        t3 == IF EndsWithFence(t2) THEN CutEndFence(t2) ELSE t2
    IN  JsonLoads(Strip(t3))

\* extract_json of auto_update_robust.py
extract_json(text) ==
    LET t1 == IF StartsWithJsonFence(text) THEN CutJsonFence(text)
              ELSE IF StartsWithFence(text) THEN CutFence(text) ELSE text
        t2 == IF EndsWithFence(t1) THEN CutEndFence(t1) ELSE t1
    IN  JsonLoads(Strip(t2))

Extract(s, text) ==
    IF s = "auto_update_robust" THEN extract_json(text) ELSE ExtractInline(text)

\* the text as one sequence of pieces, the JSON part being the piece "body"
Flat(t) == t.lead \o <<"body">> \o t.trail

\* str.find of a piece: its first position, 0 when there is none
Find(seq, piece) ==
    IF \E i \in 1..Len(seq) : seq[i] = piece
    THEN CHOOSE i \in 1..Len(seq) :
             seq[i] = piece /\ \A j \in 1..(i - 1) : seq[j] # piece
    ELSE 0

\* str.find of a fence followed by the tag json
FindJsonFence(seq) ==
    LET at == {i \in 1..(Len(seq) - 1) : seq[i] = "fence" /\ seq[i + 1] = "json"}
    IN  IF at = {} THEN 0 ELSE CHOOSE i \in at : \A j \in at : i <= j

\* str.rfind of a fence
RFindFence(seq) ==
    LET at == {i \in 1..Len(seq) : seq[i] = "fence"}
    IN  IF at = {} THEN 0 ELSE CHOOSE i \in at : \A j \in at : i >= j

\* the fence removal by find and rfind of main.py and main_v1_backup.py
CutFences(seq) ==
    LET s1 == IF FindJsonFence(seq) # 0
              THEN SubSeq(seq, FindJsonFence(seq) + 2, Len(seq))
              ELSE IF Find(seq, "fence") # 0
                   THEN SubSeq(seq, Find(seq, "fence") + 1, Len(seq))
                   ELSE seq
    IN  IF RFindFence(s1) # 0 THEN SubSeq(s1, 1, RFindFence(s1) - 1) ELSE s1

\* the JSON part has a brace in it: it is an object, or an array with an
\* object in it
HasBrace(body) ==
    \/ body.kind = "object"
    \/ body.kind = "array" /\ \E i \in 1..Len(body.items) : IsObject(body.items[i])

\* json.loads of a sequence of pieces; "cut" is a JSON part that lost its
\* beginning
LoadsFlat(seq, body) ==
    IF LStrip(RStrip(seq)) = <<"body">> /\ body.kind # "invalid"
    THEN body ELSE ParseError

\* text[start:] with start the position str.find gave: from the JSON part
\* on when the character found opens it, from inside it otherwise
From(seq, opensBody) ==
    IF Find(seq, "body") = 0 THEN seq
    ELSE IF opensBody THEN SubSeq(seq, Find(seq, "body"), Len(seq))
    ELSE <<"cut">> \o SubSeq(seq, Find(seq, "body") + 1, Len(seq))

\* extract_json_from_response of main.py: when the text does not start
\* with a brace or a bracket it restarts at the first brace, and at the
\* first bracket only when there is no brace
extract_json_from_response(text) ==
    LET s1 == LStrip(RStrip(CutFences(Flat(text))))
        starts == s1 # <<>> /\ s1[1] = "body" /\ text.body.kind \in {"object", "array"}
        s2 == IF starts \/ text.body.kind = "invalid" THEN s1
              ELSE IF HasBrace(text.body) THEN From(s1, text.body.kind = "object")
              ELSE From(s1, TRUE)
    IN  LoadsFlat(s2, text.body)

\* the extraction written inline in analyze_hot_trend and analyze_strategy
\* of main_v1_backup.py: it restarts at the first brace whenever the text
\* does not start with one
ExtractAnalysis(text) ==
    LET s1 == CutFences(LStrip(RStrip(Flat(text))))
        s0 == LStrip(RStrip(s1))
        starts == s0 # <<>> /\ s0[1] = "body" /\ text.body.kind = "object"
        s2 == IF starts \/ ~HasBrace(text.body) THEN s1
              ELSE From(s1, text.body.kind = "object")
    IN  LoadsFlat(s2, text.body)

Extractors ==
    {"inline", "extract_json", "extract_json_from_response", "analyze_inline"}

ExtractBy(x, text) ==
    IF x = "inline" THEN ExtractInline(text)
    ELSE IF x = "extract_json" THEN extract_json(text)
    ELSE IF x = "extract_json_from_response" THEN extract_json_from_response(text)
    ELSE ExtractAnalysis(text)

\* what may stand before and after the JSON part of a response
Leads ==
    {<<>>, <<"ws">>, <<"fence", "ws">>, <<"fence", "json", "ws">>,
     <<"ws", "fence", "ws">>, <<"ws", "fence", "json", "ws">>,
     <<"prose", "ws">>, <<"prose", "ws", "fence", "json", "ws">>}

Trails == {<<>>, <<"ws">>, <<"ws", "fence">>, <<"ws", "fence", "ws">>}

\* generate_hot_trends / generate_strategies: the parsed document, or
\* ParseError for any exception
generate_batch(s, out) ==
    IF out.res # "text" THEN ParseError ELSE Extract(s, out.text)

----------------------------------------------------------------------------
(* generate_future_events: the temporal filter and the sort *)

\* a bug: an event dated today is kept
IsFutureOrToday(event, today) ==
    /\ Has(event, "date")
    /\ Strptime(event.date) # NoDate
    /\ ~DayLess(Strptime(event.date), today)

\* the body of the try in the loop: event[date] exists, parses and is
\* later than today
IsFuture(event, today) ==
    /\ Has(event, "date")
    /\ Strptime(event.date) # NoDate
    /\ DayLess(today, Strptime(event.date))

FilterFuture(events, today) ==
    LET Keep(e) == IsFuture(e, today) IN SelectSeq(events, Keep)

\* a bug: the sort key is the same for every event
SameKey(a, b) == FALSE

\* the sort key x[date] of a sorts before that of b
DateKeyLess(a, b) == StrLess(a.date, b.date)

\* list.sort(key=lambda x: x['date']): stable, by the date string
RECURSIVE SortByDate(_)
SortByDate(s) ==
    IF s = <<>> THEN <<>>
    ELSE LET e == s[Len(s)]
             sorted == SortByDate(SubSeq(s, 1, Len(s) - 1))
             NotAfter(x) == ~DateKeyLess(e, x)
             After(x) == DateKeyLess(e, x)
         IN  SelectSeq(sorted, NotAfter) \o <<e>> \o SelectSeq(sorted, After)

\* the handler of the loop raises: auto_update_robust.py logs
\* event.get(...) in its except block, which an element that is not an
\* object does not have; the bare except of auto_update.py only continues
HandlerRaises(s, events) ==
    s = "auto_update_robust" /\ \E i \in 1..Len(events) : ~IsObject(events[i])

\* the loop over the parsed list and the sort: the list returned, or
\* ParseError for an exception
valid_events(s, events, today) ==
    IF HandlerRaises(s, events) THEN ParseError
    ELSE Arr(SortByDate(FilterFuture(events, today)))

generate_future_events(s, out, today) ==
    LET events == generate_batch(s, out)
    IN  IF events.kind = "error" THEN ParseError
        ELSE IF events.kind = "object"
             \* iterating the object yields its keys; event[date] on a key
             \* raises TypeError, which the handler of auto_update_robust.py
             \* turns into an AttributeError (str has no get)
             THEN (IF s = "auto_update_robust" THEN ParseError ELSE Arr(<<>>))
        ELSE valid_events(s, events.items, today)

\* the day before (timedelta(days=1) subtracted)
PrevDay(day) ==
    IF day[3] > 1 THEN <<day[1], day[2], day[3] - 1>>
    ELSE IF day[2] > 1
         THEN <<day[1], day[2] - 1, DaysInMonth(day[1], day[2] - 1)>>
         ELSE <<day[1] - 1, 12, 31>>

current_month_start(today) == <<today[1], today[2], 1>>

\* a bug: the month after December is January of the same year
NextMonthSameYear(today) == <<today[1], (today[2] % 12) + 1, 1>>

\* replace(month=month + 1, day=1), or January of the next year
next_month_start(today) ==
    IF today[2] = 12 THEN <<today[1] + 1, 1, 1>>
    ELSE <<today[1], today[2] + 1, 1>>

next_month_end(today) == PrevDay(next_month_start(next_month_start(today)))

\* the window named in the prompt of generate_future_events
start_date(today) == Strftime(current_month_start(today))

end_date(today) == Strftime(next_month_end(today))

generate(s, d, out, today) ==
    IF d = "events" THEN generate_future_events(s, out, today)
    ELSE generate_batch(s, out)

\* the event summary printed after the three files are written raises
SummaryRaises(s, events) ==
    \/ \E i \in 1..Len(events.items) : ~Has(events.items[i], "market")
    \/ \E i \in 1..Len(events.items) : i <= 5 /\ ~Has(events.items[i], "title")
    \/ s = "auto_update_robust" /\ Len(events.items) = 0

----------------------------------------------------------------------------
(* The data files.  A file is what has been written to it so far: the      *)
(* opening of the document (top), the elements, and whether the document   *)
(* was written to its end.                                                 *)

Absent == [top |-> "absent", items |-> <<>>, ended |-> FALSE]

\* the file right after open(path, 'w')
Truncated == [top |-> "empty", items |-> <<>>, ended |-> FALSE]

\* the file after a json.dump that ran to its end
Complete(doc) == [top |-> doc.kind, items |-> doc.items, ended |-> TRUE]

\* json.load(f)
JsonLoad(f) ==
    IF f.ended THEN [kind |-> f.top, items |-> f.items] ELSE ParseError

load_json_data(f) == IF f = Absent THEN Arr(<<>>) ELSE JsonLoad(f)

\* f.write(chunk) of a utf-8 text file accepts the element
Encodable(rec) ==
    \A k \in DOMAIN rec \ {"date", "strength"} : rec[k] # Surrogate

Unset == [kind |-> "unset", items |-> <<>>]

OldDoc(d) ==
    IF d = "hot_trends" THEN Arr(<<TrendOld>>)
    ELSE IF d = "strategies" THEN Arr(<<StrategyOld>>)
    ELSE Arr(<<EventOldFixed, EventOldFuture>>)

\* the files before the cycle: a fresh deployment, or the files an earlier
\* cycle left
InitialFiles == {[d \in Kinds |-> Absent], [d \in Kinds |-> Complete(OldDoc(d))]}

----------------------------------------------------------------------------
(* The response schemas of the read API *)

Markets == {"US", "TW", "CN", "Global"}

EventTypes == {"critical", "hot", "corporate", "macro", "holiday"}

Trends == {"bull", "bear", "neutral", "volatile"}

TrendDirections == {"up", "down", "neutral", "volatile"}

\* stands for the three risk levels of Strategy.risk
RiskLevels == {"low", "mid", "high"}

StockEvent(e) ==
    /\ {"id", "date", "title", "market", "type", "trend", "description",
        "strategy"} \subseteq DOMAIN e
    /\ e.market \in Markets
    /\ e.type \in EventTypes
    /\ e.trend \in Trends

HotTrend(t) ==
    /\ {"id", "name", "strength", "trend", "stocks", "reason", "updatedAt"}
           \subseteq DOMAIN t
    /\ t.trend \in TrendDirections

Strategy(t) ==
    /\ {"id", "title", "type", "desc", "risk", "target", "updatedAt"}
           \subseteq DOMAIN t
    /\ t.type \in Trends
    /\ t.risk \in RiskLevels

Conforms(d, rec) ==
    IF d = "hot_trends" THEN HotTrend(rec)
    ELSE IF d = "strategies" THEN Strategy(rec)
    ELSE StockEvent(rec)

\* response_model=List[...] accepts the document
SchemaAccepts(d, doc) ==
    /\ doc.kind = "array"
    /\ \A i \in 1..Len(doc.items) : Conforms(d, doc.items[i])

NoResp == [kind |-> "none", status |-> 0, loaded |-> Unset]

NoProbe == [items |-> <<>>, out |-> Unset]

NoCase ==
    [text |-> Text(<<>>, Garbage, <<>>), out |-> [x \in Extractors |-> Unset],
     done |-> FALSE]

----------------------------------------------------------------------------
(* The analysis endpoints of main.py and main_v1_backup.py *)

\* analyze_* and regenerate_*_analysis of main.py, analyze_hot_trend and
\* analyze_strategy of main_v1_backup.py
Endpoints ==
    {[app |-> "main", kind |-> k, regen |-> r] : k \in Kinds, r \in BOOLEAN}
    \cup {[app |-> "v1", kind |-> k, regen |-> FALSE] :
              k \in {"hot_trends", "strategies"}}

\* the ids a request may name: one the service gives a record, one no
\* record has
RequestIds(k) ==
    {"no-such-id",
     IF k = "hot_trends" THEN TrendA.id
     ELSE IF k = "strategies" THEN StrategyA.id ELSE EventFuture.id}

\* the fields of the record the prompt is built from
PromptFields(k) ==
    IF k = "events"
    THEN {"date", "title", "market", "type", "trend", "description", "strategy"}
    ELSE IF k = "hot_trends" THEN {"name", "strength", "trend", "stocks", "reason"}
    ELSE {"title", "type", "desc", "risk", "target"}

\* next((e for e in data if e[id] == wanted), None): the position of the
\* first record with the id, 0 for None, -1 when the scan raises (the
\* document is not a list, or an element before the match has no id)
Lookup(doc, id) ==
    IF doc.kind # "array" THEN -1
    ELSE LET stop == {i \in 1..Len(doc.items) :
                         ~Has(doc.items[i], "id") \/ doc.items[i].id = id}
         IN  IF stop = {} THEN 0
             ELSE LET i == CHOOSE k \in stop : \A l \in stop : k <= l
                  IN  IF Has(doc.items[i], "id") THEN i ELSE -1

\* what generate_content gives an analysis request: it raises, its text is
\* None, its text is Markdown, or its text is a JSON object
AnalysisOutcomes == {"raise", "none", "markdown", "json"}

\* the response of a handler: the status, whether it carries an analysis
\* and whether it carries the detail message of an HTTPException; with it
\* the number of service calls made, where the handler ended (how), the
\* credential the client was built with and what the service answered
Reply(status, how, key, out) ==
    [status |-> status, analysis |-> (status = 200),
     detail |-> (how \in {"not_found", "no_key", "call_failed"}),
     calls |-> IF how \in {"call_failed", "ok"} THEN 1 ELSE 0,
     how |-> how, key |-> key,
     out |-> IF how \in {"call_failed", "ok"} THEN out ELSE "unused"]

\* a bug: the process-wide key wins over the one the caller sent
KeyPrefersDefault(header, env) ==
    IF env THEN "default" ELSE IF header THEN "caller" ELSE "none"

\* key_to_use = api_key or GEMINI_API_KEY; header: the request has a
\* non-empty X-API-Key, env: GEMINI_API_KEY is non-empty
key_to_use(header, env) ==
    IF header THEN "caller" ELSE IF env THEN "default" ELSE "none"

\* a bug: a failed call is answered 200 with an empty analysis
AnalysisSwallowsError(header, env, out) ==
    IF key_to_use(header, env) = "none"
    THEN Reply(500, "no_key", "none", out)
    ELSE Reply(200, "ok", key_to_use(header, env), out)

\* generate_ai_analysis of main.py: 500 without a key, else one call; an
\* exception of the call, and the AttributeError of None.strip(), become
\* HTTPException 500
generate_ai_analysis(header, env, out) ==
    IF key_to_use(header, env) = "none"
    THEN Reply(500, "no_key", "none", out)
    ELSE IF out \in {"raise", "none"}
         THEN Reply(500, "call_failed", key_to_use(header, env), out)
         ELSE Reply(200, "ok", key_to_use(header, env), out)

\* the call and the extraction of analyze_hot_trend of main_v1_backup.py
AnalyzeV1(out) ==
    IF out \in {"raise", "none"} THEN Reply(500, "call_failed", "default", out)
    ELSE IF ExtractAnalysis(Text(<<>>, IF out = "json" THEN ErrorObject ELSE Garbage,
                                 <<>>)).kind = "error"
         THEN Reply(500, "call_failed", "default", out)
         ELSE Reply(200, "ok", "default", out)

\* one analysis handler from the load of the file to the response
Handle(ep, id, header, out) ==
    LET doc == load_json_data(files[ep.kind])
        at == Lookup(doc, id)
    IN  IF at = -1 THEN Reply(500, "scan_raised", "none", out)
        ELSE IF at = 0 THEN Reply(404, "not_found", "none", out)
        ELSE IF ep.app = "v1" /\ ~apiKey THEN Reply(500, "no_key", "none", out)
        ELSE IF ~(PromptFields(ep.kind) \subseteq DOMAIN doc.items[at])
             THEN Reply(500, "prompt_raised", "none", out)
        ELSE IF ep.app = "main" THEN generate_ai_analysis(header, apiKey, out)
        ELSE AnalyzeV1(out)

\* the script was not imported yet: no clock was read
NoRun ==
    [at |-> "import", ticks |-> 0, TODAY |-> <<>>, today |-> NoDate,
     start_date |-> <<>>, end_date |-> <<>>, today_dt |-> NoDate]

\* no prompt was built yet
NoAsk ==
    [kind |-> "events", record |-> EventFuture, feedback |-> "",
     analyze |-> <<>>, regenerate |-> <<>>]

\* no watchlist request was served yet
NoWl == [served |-> FALSE]

\* a request slot nothing was received on
IdleSlot == [state |-> "idle"]

NoApi == [slot |-> [i \in 1..MaxRequests |-> IdleSlot], svc |-> 0]

NoReq ==
    [served |-> FALSE, endpoint |-> [app |-> "main", kind |-> "events", regen |-> FALSE],
     id |-> "no-such-id", header |-> FALSE,
     reply |-> Reply(0, "none", "none", "unused")]

\* the days the filter is probed on
ProbeDays == {<<2026, 11, 15>>, <<2026, 12, 31>>}

----------------------------------------------------------------------------
(* The state machine *)

\* no cycle has started and no request was served
Start ==
    /\ pc = "init"
    /\ cur = 1
    /\ batch = [d \in Kinds |-> Unset]
    /\ pending = <<>>
    /\ pre = files
    /\ stage = [d \in Kinds |-> "Idle"]
    /\ result = "none"
    /\ resp = NoResp
    /\ calls = [d \in Kinds |-> 0]
    /\ req = NoReq
    /\ run = NoRun
    /\ wl = NoWl

Init ==
    /\ script \in Scripts
    /\ apiKey \in BOOLEAN
    /\ now = <<2026, 11, 15>>
    /\ files \in InitialFiles
    /\ probe = NoProbe
    /\ xcase = NoCase
    /\ api = NoApi
    /\ ask = NoAsk
    /\ Start

\* a parsed events list is handed to the loop of generate_future_events
InitFilter ==
    /\ script \in Scripts
    /\ apiKey = TRUE
    /\ now \in ProbeDays
    /\ files = [d \in Kinds |-> Absent]
    /\ probe \in {[items |-> s, out |-> Unset] :
                      s \in SeqsUpTo(FilterSamples, MaxEvents)}
    /\ xcase = NoCase
    /\ api = NoApi
    /\ ask = NoAsk
    /\ Start

\* a bug: the except block reports success
ExceptReturnsTrue(d, how) ==
    /\ pc' = "done"
    /\ result' = "True"
    /\ stage' = IF d \in Kinds THEN [stage EXCEPT ![d] = how] ELSE stage

\* a bug: after a failure the step is tried again
ExceptRetries(d, how) ==
    /\ pc' = "generate"
    /\ UNCHANGED <<result, stage>>

\* an exception reaches the except block of update_data_files: return
\* False; how is "Failed" when the generation step of d raised and
\* "WriteFailed" when the write of d raised
Except(d, how) ==
    /\ pc' = "done"
    /\ result' = "False"
    /\ stage' = IF d \in Kinds THEN [stage EXCEPT ![d] = how] ELSE stage

\* client = init_gemini()
InitGemini ==
    /\ pc = "init"
    /\ IF apiKey
       THEN pc' = "generate" /\ UNCHANGED <<result, stage>>
       ELSE Except("none", "Failed")
    /\ UNCHANGED <<calls, probe, xcase, req, api, run, wl, ask>>
    /\ UNCHANGED <<script, apiKey, now, cur, batch, pending, files, pre, resp>>

\* a bug: the file is opened for writing before the batch is generated
GenerateOpensFirst ==
    /\ pc = "generate"
    /\ \E out \in Outcomes(Order[cur]) :
         LET d == Order[cur]
             b == generate(script, d, out, now)
         IN  IF b.kind = "error"
             THEN /\ Except(d, "Failed")
                  /\ files' = [files EXCEPT ![d] = Truncated]
                  /\ UNCHANGED batch
             ELSE /\ batch' = [batch EXCEPT ![d] = b]
                  /\ stage' = [stage EXCEPT ![d] = "Generated"]
                  /\ pc' = "open"
                  /\ UNCHANGED <<result, files>>
    /\ calls' = [calls EXCEPT ![Order[cur]] = @ + 1]
    /\ UNCHANGED <<probe, xcase, req, api, run, wl, ask>>
    /\ UNCHANGED <<script, apiKey, now, cur, pending, pre, resp>>

\* a bug: the next dataset is generated before this one is written
GenerateAhead ==
    /\ pc = "generate"
    /\ \E out \in Outcomes(Order[cur]) :
         LET d == Order[cur]
             b == generate(script, d, out, now)
         IN  IF b.kind = "error"
             THEN Except(d, "Failed") /\ UNCHANGED <<batch, cur>>
             ELSE /\ batch' = [batch EXCEPT ![d] = b]
                  /\ stage' = [stage EXCEPT ![d] = "Generated"]
                  /\ pc' = IF cur < Len(Order) THEN "generate" ELSE "open"
                  /\ cur' = IF cur < Len(Order) THEN cur + 1 ELSE cur
                  /\ UNCHANGED result
    /\ calls' = [calls EXCEPT ![Order[cur]] = @ + 1]
    /\ UNCHANGED <<probe, xcase, req, api, run, wl, ask>>
    /\ UNCHANGED <<script, apiKey, now, pending, files, pre, resp>>

\* hot_trends = generate_hot_trends(client), and the like
Generate ==
    /\ pc = "generate"
    /\ \E out \in Outcomes(Order[cur]) :
         LET d == Order[cur]
             b == generate(script, d, out, now)
         IN  IF b.kind = "error"
             THEN Except(d, "Failed") /\ UNCHANGED batch
             ELSE /\ batch' = [batch EXCEPT ![d] = b]
                  /\ stage' = [stage EXCEPT ![d] = "Generated"]
                  /\ pc' = "open"
                  /\ UNCHANGED result
    /\ calls' = [calls EXCEPT ![Order[cur]] = @ + 1]
    /\ UNCHANGED <<probe, xcase, req, api, run, wl, ask>>
    /\ UNCHANGED <<script, apiKey, now, cur, pending, files, pre, resp>>

\* a bug: the file is opened without discarding what it holds
OpenKeepsContent ==
    /\ pc = "open"
    /\ files' = [files EXCEPT ![Order[cur]] = [Truncated EXCEPT !.items = files[Order[cur]].items]]
    /\ pending' = batch[Order[cur]].items
    /\ stage' = [stage EXCEPT ![Order[cur]] = "Writing"]
    /\ pc' = "dump"
    /\ UNCHANGED <<calls, probe, xcase, req, api, run, wl, ask>>
    /\ UNCHANGED <<script, apiKey, now, cur, batch, pre, result, resp>>

\* with open(path, 'w', encoding='utf-8') as f
Open ==
    /\ pc = "open"
    /\ files' = [files EXCEPT ![Order[cur]] = Truncated]
    /\ pending' = batch[Order[cur]].items
    /\ stage' = [stage EXCEPT ![Order[cur]] = "Writing"]
    /\ pc' = "dump"
    /\ UNCHANGED <<calls, probe, xcase, req, api, run, wl, ask>>
    /\ UNCHANGED <<script, apiKey, now, cur, batch, pre, result, resp>>

\* json.dump writes the opening of the document (a top-level object is
\* written whole)
DumpHead ==
    /\ pc = "dump"
    /\ files[Order[cur]].top = "empty"
    /\ LET d == Order[cur] IN
         IF batch[d].kind = "array"
         THEN /\ files' = [files EXCEPT ![d].top = "array"]
              /\ pc' = "dump"
         ELSE /\ files' = [files EXCEPT ![d] = Complete(batch[d])]
              /\ pc' = "close"
    /\ UNCHANGED <<calls, probe, xcase, req, api, run, wl, ask>>
    /\ UNCHANGED <<script, apiKey, now, cur, batch, pending, pre, stage,
                   result, resp>>

\* json.dump writes the next element, or f.write raises UnicodeEncodeError
\* and the with block closes the file as it is
DumpElem ==
    /\ pc = "dump"
    /\ files[Order[cur]].top = "array"
    /\ pending # <<>>
    /\ LET d == Order[cur] IN
         IF Encodable(Head(pending))
         THEN /\ files' = [files EXCEPT ![d].items = Append(@, Head(pending))]
              /\ pending' = Tail(pending)
              /\ UNCHANGED <<pc, result, stage>>
         ELSE /\ Except(d, "WriteFailed")
              /\ UNCHANGED <<files, pending>>
    /\ UNCHANGED <<calls, probe, xcase, req, api, run, wl, ask>>
    /\ UNCHANGED <<script, apiKey, now, cur, batch, pre, resp>>

\* json.dump writes the end of the array
DumpEnd ==
    /\ pc = "dump"
    /\ files[Order[cur]].top = "array"
    /\ pending = <<>>
    /\ files' = [files EXCEPT ![Order[cur]].ended = TRUE]
    /\ pc' = "close"
    /\ UNCHANGED <<calls, probe, xcase, req, api, run, wl, ask>>
    /\ UNCHANGED <<script, apiKey, now, cur, batch, pending, pre, stage,
                   result, resp>>

\* the with block ends; the next dataset, or the summary after the last
Close ==
    /\ pc = "close"
    /\ stage' = [stage EXCEPT ![Order[cur]] = "Persisted"]
    /\ IF cur < Len(Order)
       THEN cur' = cur + 1 /\ pc' = "generate"
       ELSE cur' = cur /\ pc' = "summary"
    /\ UNCHANGED <<calls, probe, xcase, req, api, run, wl, ask>>
    /\ UNCHANGED <<script, apiKey, now, batch, pending, files, pre, result,
                   resp>>

\* the event summary, then return True
Summary ==
    /\ pc = "summary"
    /\ result' = IF SummaryRaises(script, batch["events"]) THEN "False" ELSE "True"
    /\ pc' = "done"
    /\ UNCHANGED <<calls, probe, xcase, req, api, run, wl, ask>>
    /\ UNCHANGED <<script, apiKey, now, cur, batch, pending, files, pre,
                   stage, resp>>

\* a bug: a load that finds no file writes the default batch to it
GetBatchSaves(d) ==
    /\ LET doc == load_json_data(files[d]) IN
         resp' = [kind |-> d, loaded |-> doc,
                  status |-> IF doc.kind # "error" /\ SchemaAccepts(d, doc)
                             THEN 200 ELSE 500]
    /\ files' = [files EXCEPT ![d] = IF @ = Absent THEN Complete(Arr(<<>>)) ELSE @]
    /\ UNCHANGED <<calls, probe, xcase, req, api, run, wl, ask>>
    /\ UNCHANGED <<script, apiKey, now, pc, cur, batch, pending, pre,
                   stage, result>>

\* get_hot_trends / get_strategies / get_events of main.py
GetBatch(d) ==
    /\ LET doc == load_json_data(files[d]) IN
         resp' = [kind |-> d, loaded |-> doc,
                  status |-> IF doc.kind # "error" /\ SchemaAccepts(d, doc)
                             THEN 200 ELSE 500]
    /\ UNCHANGED <<calls, probe, xcase, req, api, run, wl, ask>>
    /\ UNCHANGED <<script, apiKey, now, pc, cur, batch, pending, files, pre,
                   stage, result>>

\* lines 273-289 of generate_future_events applied to the parsed list
FilterEvents ==
    /\ probe.out = Unset
    /\ probe' = [probe EXCEPT !.out = valid_events(script, probe.items, now)]
    /\ UNCHANGED <<script, apiKey, now, pc, cur, batch, pending, files, pre,
                   stage, result, resp, calls, xcase, req, api, run, wl, ask>>

\* a response text is handed to every extractor of the repository
InitExtract ==
    /\ script = "auto_update"
    /\ apiKey = TRUE
    /\ now = <<2026, 11, 15>>
    /\ files = [d \in Kinds |-> Absent]
    /\ probe = NoProbe
    /\ xcase \in {[NoCase EXCEPT !.text = Text(l, b, t)] :
                      l \in Leads, t \in Trails, b \in Bodies("hot_trends")}
    /\ api = NoApi
    /\ ask = NoAsk
    /\ Start

ExtractAll ==
    /\ ~xcase.done
    /\ xcase' = [xcase EXCEPT !.out = [x \in Extractors |-> ExtractBy(x, xcase.text)],
                              !.done = TRUE]
    /\ UNCHANGED <<script, apiKey, now, pc, cur, batch, pending, files, pre,
                   stage, result, resp, calls, probe, req, api, run, wl, ask>>

\* a request to an analysis endpoint, with or without the X-API-Key header
Analyze ==
    \E ep \in Endpoints : \E id \in RequestIds(ep.kind) :
    \E header \in BOOLEAN : \E out \in AnalysisOutcomes :
        LET r == Handle(ep, id, header /\ ep.app = "main", out) IN
        /\ req' = [served |-> TRUE, endpoint |-> ep, id |-> id,
                   header |-> header /\ ep.app = "main", reply |-> r]
        /\ UNCHANGED <<script, apiKey, now, pc, cur, batch, pending, files,
                       pre, stage, result, resp, calls, probe, xcase, api, run, wl, ask>>

\* a bug: a request for a record another request already has an analysis of
\* is answered from that analysis, without a call
ReceiveCached(i) ==
    \E ep \in {e \in Endpoints : e.app = "main" /\ e.kind = "hot_trends"} :
    \E id \in RequestIds(ep.kind) : \E header \in BOOLEAN :
        LET r == Handle(ep, id, header, "markdown")
            hit == {j \in 1..MaxRequests :
                       /\ api.slot[j].state = "done"
                       /\ api.slot[j].id = id
                       /\ api.slot[j].reply.status = 200}
        IN
        /\ api.slot[i].state = "idle"
        /\ api' = IF r.calls = 0
                  THEN [api EXCEPT !.slot[i] =
                           [state |-> "done", endpoint |-> ep, id |-> id,
                            header |-> header, reply |-> r]]
                  ELSE IF hit # {}
                  THEN [api EXCEPT !.slot[i] =
                           [state |-> "done", endpoint |-> ep, id |-> id,
                            header |-> header,
                            reply |-> api.slot[CHOOSE j \in hit : TRUE].reply]]
                  ELSE [slot |-> [api.slot EXCEPT ![i] =
                                     [state |-> "calling", endpoint |-> ep,
                                      id |-> id, header |-> header]],
                        svc |-> api.svc + 1]
        /\ UNCHANGED <<script, apiKey, now, pc, cur, batch, pending, files,
                       pre, stage, result, resp, calls, probe, xcase, req,
                       run, wl, ask>>

\* the handler of a request up to the service call: the file is loaded, the
\* record looked up, the key chosen; the handler has no state outside its
\* locals, so the request either ends here or starts its own call
Receive(i) ==
    \E ep \in {e \in Endpoints : e.app = "main" /\ e.kind = "hot_trends"} :
    \E id \in RequestIds(ep.kind) : \E header \in BOOLEAN :
        LET r == Handle(ep, id, header, "markdown") IN
        /\ api.slot[i].state = "idle"
        /\ api' = IF r.calls = 0
                  THEN [api EXCEPT !.slot[i] =
                           [state |-> "done", endpoint |-> ep, id |-> id,
                            header |-> header, reply |-> r]]
                  ELSE [slot |-> [api.slot EXCEPT ![i] =
                                     [state |-> "calling", endpoint |-> ep,
                                      id |-> id, header |-> header]],
                        svc |-> api.svc + 1]
        /\ UNCHANGED <<script, apiKey, now, pc, cur, batch, pending, files,
                       pre, stage, result, resp, calls, probe, xcase, req,
                       run, wl, ask>>

\* generate_content of one request returns or raises, and the handler
\* builds the response from it
Return(i) ==
    \E out \in AnalysisOutcomes :
        /\ api.slot[i].state = "calling"
        /\ api' = [api EXCEPT !.slot[i] =
                      [state |-> "done", endpoint |-> api.slot[i].endpoint,
                       id |-> api.slot[i].id, header |-> api.slot[i].header,
                       reply |-> Handle(api.slot[i].endpoint, api.slot[i].id,
                                        api.slot[i].header, out)]]
        /\ UNCHANGED <<script, apiKey, now, pc, cur, batch, pending, files,
                       pre, stage, result, resp, calls, probe, xcase, req,
                       run, wl, ask>>

\* hot-trend analysis requests arrive while earlier ones wait for the service
InitConcurrent ==
    /\ script = "auto_update"
    /\ apiKey \in BOOLEAN
    /\ now = <<2026, 11, 15>>
    /\ files = [d \in Kinds |-> Complete(IF d = "hot_trends" THEN Arr(<<TrendA>>)
                                          ELSE OldDoc(d))]
    /\ probe = NoProbe
    /\ xcase = NoCase
    /\ api = NoApi
    /\ ask = NoAsk
    /\ Start

ConcurrentStep == \E i \in 1..MaxRequests : Receive(i) \/ Return(i)

SpecConcurrent == InitConcurrent /\ [][ConcurrentStep]_vars

\* the days a run may start on: the first, the middle and the last day of
\* every month of three years, one of them a leap year
ClockDays ==
    {day \in (2026..2028) \X (1..12) \X (1..31) :
        day[3] \in {1, 15, DaysInMonth(day[1], day[2])}}

\* the day after
NextDay(day) ==
    IF day[3] < DaysInMonth(day[1], day[2]) THEN <<day[1], day[2], day[3] + 1>>
    ELSE IF day[2] < 12 THEN <<day[1], day[2] + 1, 1>>
    ELSE <<day[1] + 1, 1, 1>>

\* the clock of the host passes midnight
Tick ==
    /\ run.at # "done"
    /\ run.ticks < MaxTicks
    /\ now' = NextDay(now)
    /\ run' = [run EXCEPT !.ticks = @ + 1]
    /\ UNCHANGED <<script, apiKey, pc, cur, batch, pending, files, pre, stage,
                   result, resp, calls, probe, xcase, req, api, wl, ask>>

\* TODAY = datetime.now().strftime('%Y-%m-%d') when the module is imported
ImportModule ==
    /\ run.at = "import"
    /\ run' = [run EXCEPT !.at = "window", !.TODAY = Strftime(now)]
    /\ UNCHANGED <<script, apiKey, now, pc, cur, batch, pending, files, pre,
                   stage, result, resp, calls, probe, xcase, req, api, wl, ask>>

\* the head of generate_future_events: today = datetime.now() and the
\* window of the prompt
ComputeWindow ==
    /\ run.at = "window"
    /\ run' = [run EXCEPT !.at = "filter", !.today = now,
                          !.start_date = start_date(now),
                          !.end_date = end_date(now)]
    /\ UNCHANGED <<script, apiKey, now, pc, cur, batch, pending, files, pre,
                   stage, result, resp, calls, probe, xcase, req, api, wl, ask>>

\* after the service answered: today_dt = datetime.now() for the filter
FilterRead ==
    /\ run.at = "filter"
    /\ run' = [run EXCEPT !.at = "done", !.today_dt = now]
    /\ UNCHANGED <<script, apiKey, now, pc, cur, batch, pending, files, pre,
                   stage, result, resp, calls, probe, xcase, req, api, wl, ask>>

\* one run of the script on any day, the clock running
InitClock ==
    /\ script = "auto_update"
    /\ apiKey = TRUE
    /\ now \in ClockDays
    /\ files = [d \in Kinds |-> Absent]
    /\ probe = NoProbe
    /\ xcase = NoCase
    /\ api = NoApi
    /\ ask = NoAsk
    /\ Start

ClockStep == Tick \/ ImportModule \/ ComputeWindow \/ FilterRead

SpecClock == InitClock /\ [][ClockStep]_vars

\* the feedback a regenerate request carries; the field is required, its
\* text may be empty
Feedbacks == {"", "the date is wrong", "too short"}

\* which prompt text a handler of main.py fills in: the analyze and the
\* regenerate handler of events and of strategies hold the same text, the
\* regenerate handler of hot trends holds the earlier text that asks for a
\* JSON object
Template(kind, regen) ==
    IF kind = "events" THEN "event_analysis"
    ELSE IF kind = "strategies" THEN "strategy_analysis"
    ELSE IF regen THEN "trend_analysis_json" ELSE "trend_analysis"

\* the output format the prompt text asks the service for
Format(template) ==
    IF template = "trend_analysis_json" THEN "json" ELSE "markdown"

\* the f-string of a handler; it raises KeyError when the record lacks a
\* field it names
BuildPrompt(kind, regen, rec) ==
    IF ~(PromptFields(kind) \subseteq DOMAIN rec)
    THEN [raised |-> TRUE, template |-> Template(kind, regen),
          format |-> Format(Template(kind, regen)), values |-> <<>>]
    ELSE [raised |-> FALSE, template |-> Template(kind, regen),
          format |-> Format(Template(kind, regen)),
          values |-> [f \in PromptFields(kind) |-> rec[f]]]

\* if feedback: prompt += suffix, in generate_ai_analysis; None and the
\* empty string add nothing
with_feedback(prompt, feedback) ==
    [prompt |-> prompt, suffix |-> IF feedback # "" THEN feedback ELSE ""]

\* GET analyze of the record: no feedback is passed
AskAnalyze ==
    /\ ask.analyze = <<>>
    /\ ask' = [ask EXCEPT !.analyze =
                  <<with_feedback(BuildPrompt(ask.kind, FALSE, ask.record), "")>>]
    /\ UNCHANGED <<script, apiKey, now, pc, cur, batch, pending, files, pre,
                   stage, result, resp, calls, probe, xcase, req, api, run, wl>>

\* POST regenerate of the record with the feedback of the body
AskRegenerate ==
    /\ ask.regenerate = <<>>
    /\ ask' = [ask EXCEPT !.regenerate =
                  <<with_feedback(BuildPrompt(ask.kind, TRUE, ask.record),
                                  ask.feedback)>>]
    /\ UNCHANGED <<script, apiKey, now, pc, cur, batch, pending, files, pre,
                   stage, result, resp, calls, probe, xcase, req, api, run, wl>>

\* a stored record of some kind is analysed and regenerated
InitPrompt ==
    /\ script = "auto_update"
    /\ apiKey = TRUE
    /\ now = <<2026, 11, 15>>
    /\ files = [d \in Kinds |-> Absent]
    /\ probe = NoProbe
    /\ xcase = NoCase
    /\ api = NoApi
    /\ ask \in {[kind |-> k, record |-> r, feedback |-> f,
                  analyze |-> <<>>, regenerate |-> <<>>] :
                     k \in Kinds, r \in TrendSamples \cup StrategySamples \cup EventSamples,
                     f \in Feedbacks}
    /\ ask.record \in Samples(ask.kind)
    /\ Start

PromptStep == AskAnalyze \/ AskRegenerate

SpecPrompt == InitPrompt /\ [][PromptStep]_vars

\* a bug: every requested stock is queried
AllStocks(stocks) == stocks

\* stocks = request.stocks[:10]
FirstTen(stocks) ==
    SubSeq(stocks, 1, IF Len(stocks) < 10 THEN Len(stocks) ELSE 10)

\* what the service gives for one stock: it raises, its response has no
\* text, or the text is a fenced object with one event, a bare empty array,
\* or an object after a sentence of commentary (not valid JSON once the
\* fences are cut)
StockResponse(stock, how) ==
    IF how \in {"raise", "none"}
    THEN [res |-> how, text |-> Text(<<>>, Garbage, <<>>)]
    ELSE IF how = "array"
    THEN [res |-> "text", text |-> Text(<<>>, Arr(<<>>), <<>>)]
    ELSE [res |-> "text",
          text |-> Text(IF how = "bad_json" THEN <<"prose", "ws">>
                        ELSE <<"fence", "json", "ws">>,
                        [kind |-> "object",
                         items |-> <<[date |-> Strftime(<<2026, 2, stock>>),
                                      title |-> "earnings"]>>],
                        IF how = "bad_json" THEN <<>> ELSE <<"ws", "fence">>)]

\* the loop of get_watchlist_events from stock i on: one call per stock;
\* an exception leaves the loop for the outer except, a JSONDecodeError
\* skips the stock, an object with an events list adds its events
RECURSIVE WatchLoop(_, _, _, _, _)
WatchLoop(stocks, how, i, called, events) ==
    IF i > Len(stocks) THEN [status |-> 200, called |-> called, events |-> events]
    ELSE LET response == StockResponse(stocks[i], how[i])
             stock_data == ExtractInline(response.text)
         IN  IF response.res # "text"
             THEN [status |-> 500, called |-> Append(called, stocks[i]),
                   events |-> <<>>]
             ELSE WatchLoop(stocks, how, i + 1, Append(called, stocks[i]),
                      IF stock_data.kind = "object"
                      THEN events \o
                           [k \in 1..Len(stock_data.items) |->
                               [id |-> <<"watchlist", stocks[i],
                                         stock_data.items[k].date>>,
                                date |-> stock_data.items[k].date,
                                market |-> "TW",
                                relatedStocks |-> <<stocks[i]>>]]
                      ELSE events)

\* get_watchlist_events of main.py
get_watchlist_events(stocks, header, env, how) ==
    IF Len(stocks) = 0
    THEN [status |-> 200, called |-> <<>>, events |-> <<>>, key |-> "unchecked"]
    ELSE IF key_to_use(header, env) = "none"
    THEN [status |-> 500, called |-> <<>>, events |-> <<>>, key |-> "none"]
    ELSE LET r == WatchLoop(FirstTen(stocks), how, 1, <<>>, <<>>)
         IN  [status |-> r.status, called |-> r.called, events |-> r.events,
              key |-> key_to_use(header, env)]

\* a watchlist request for stocks 1..n; the service raises (or answers
\* without text) at stock r, answers stock b with text that is not JSON
\* and stock e with an empty array, and gives every other stock one event
Watchlist ==
    \E n \in 0..MaxStocks : \E r, b, e \in 0..n :
    \E header \in BOOLEAN : \E fail \in {"raise", "none"} :
        LET how == [i \in 1..n |-> IF i = r THEN fail
                                   ELSE IF i = b THEN "bad_json"
                                   ELSE IF i = e THEN "array" ELSE "events"]
        IN
        /\ ~wl.served
        /\ wl' = [served |-> TRUE, n |-> n, header |-> header, raises |-> r,
                  bad |-> b, empty |-> e,
                  reply |-> get_watchlist_events([i \in 1..n |-> i], header,
                                                 apiKey, how)]
        /\ UNCHANGED <<script, apiKey, now, pc, cur, batch, pending, files,
                       pre, stage, result, resp, calls, probe, xcase, req,
                       api, run, ask>>

\* the API before a watchlist request
InitWatch ==
    /\ script = "auto_update"
    /\ apiKey \in BOOLEAN
    /\ now = <<2026, 11, 15>>
    /\ files = [d \in Kinds |-> Absent]
    /\ probe = NoProbe
    /\ xcase = NoCase
    /\ api = NoApi
    /\ ask = NoAsk
    /\ Start

SpecWatch == InitWatch /\ [][Watchlist]_vars

\* one step of update_data_files
UpdateStep ==
    \/ InitGemini
    \/ Generate
    \/ Open
    \/ DumpHead
    \/ DumpElem
    \/ DumpEnd
    \/ Close
    \/ Summary

\* one read-API request
ReadStep == \E d \in Kinds : GetBatch(d)

Next == UpdateStep \/ ReadStep

\* a refresh cycle with the read API serving during it
Spec == Init /\ [][Next]_vars

\* a refresh cycle alone
SpecUpdate == Init /\ [][UpdateStep]_vars

\* one analysis request served from the files a refresh cycle left
ServeStep == pc = "done" /\ ~req.served /\ Analyze

\* a refresh cycle, then an analysis request
SpecServe == Init /\ [][UpdateStep \/ ServeStep]_vars

\* one request to the API
ApiStep == ReadStep \/ Analyze

\* the API serving while no refresh cycle runs
SpecApi == Init /\ [][ApiStep]_vars

\* the filter and sort of generate_future_events as a function of the
\* parsed list, the script and the day
SpecFilter == InitFilter /\ [][FilterEvents]_vars

\* the extractors as functions of the response text
SpecExtract == InitExtract /\ [][ExtractAll]_vars

----------------------------------------------------------------------------
(* Properties of the refresh cycle *)

Range(s) == {s[i] : i \in 1..Len(s)}

\* the dataset was attempted in this cycle
Attempted(d) == stage[d] \in {"Persisted", "Failed", "WriteFailed"}

\* the ids on the configured allow-list of protected events
FixedIds == {"fixed-fomc"}

\* C1: in one cycle, when generation or extraction fails for one dataset,
\* every other dataset is still generated and persisted (it is skipped for
\* no other reason than a failure of its own).
C1_FailureDoesNotBlockOthers ==
    pc = "done" =>
        \A a \in Kinds : \A b \in Kinds \ {a} :
            stage[a] = "Failed" => Attempted(b)

\* C2: after a cycle that reports failure, every file holds either its
\* complete content from before the cycle or a complete batch of the cycle.
C2_FailureLeavesDataIntact ==
    (pc = "done" /\ result = "False") =>
        \A d \in Kinds :
            \/ files[d] = pre[d]
            \/ files[d] = Complete(batch[d])

\* C3: when the service call or the parse fails in a dataset's generation
\* step, the dataset's file is what it was before the cycle and the cycle
\* reports failure.
C3_GenerationFailureLeavesBlob ==
    \A d \in Kinds :
        stage[d] = "Failed" =>
            /\ files[d] = pre[d]
            /\ pc = "done" /\ result = "False"

\* a generation step failed for a dataset that had content before the cycle
C3_Witness ==
    \E d \in Kinds : stage[d] = "Failed" /\ pre[d] # Absent /\ pc = "done"

\* C4: a read-API load that interleaves with the write of a dataset returns
\* the complete old document or the complete new one, never an empty or
\* partly written one.
C4_ReaderSeesWholeDocument ==
    resp.kind \in Kinds =>
        /\ resp.loaded.kind # "error"
        /\ \/ resp.loaded = load_json_data(pre[resp.kind])
           \/ resp.loaded = batch[resp.kind]

\* C5: update_data_files returns True only if all three datasets were
\* written to their files in the cycle; if a dataset was not persisted the
\* cycle returns False.
C5_SuccessOnlyIfAllPersisted ==
    /\ result = "True" =>
           \A d \in Kinds : stage[d] = "Persisted" /\ files[d] = Complete(batch[d])
    /\ (pc = "done" /\ \E d \in Kinds : stage[d] # "Persisted") => result = "False"

\* the cycle returned True over files that held older content
C5_Witness ==
    pc = "done" /\ result = "True" /\ \A d \in Kinds : pre[d] # Absent

\* C6: once a dataset is persisted in a cycle its file is exactly the batch
\* generated in the cycle, with no record of the previous file in it.
C6_PersistedReplacesOld ==
    \A d \in Kinds :
        stage[d] = "Persisted" =>
            /\ files[d] = Complete(batch[d])
            /\ Range(files[d].items) \cap Range(pre[d].items) = {}

\* a non-empty events batch was persisted over a non-empty older file
C6_Witness ==
    /\ pc = "done"
    /\ stage["events"] = "Persisted"
    /\ pre["events"].items # <<>>
    /\ files["events"].items # <<>>

\* C7: when the generated events batch is empty after filtering, the cycle
\* does not abort and the events file still holds every record of the old
\* file that is protected or dated in the future.
C7_EmptyBatchKeepsOldRecords ==
    (pc = "done" /\ batch["events"] = Arr(<<>>)) =>
        /\ stage["events"] = "Persisted"
        /\ \A r \in Range(pre["events"].items) :
               (r.id \in FixedIds \/ IsFuture(r, now)) =>
                   r \in Range(files["events"].items)

\* C8: when the old events file holds a protected id, the batch persisted
\* by the cycle holds exactly one record with that id, with the date it had.
C8_ProtectedRecordKept ==
    stage["events"] = "Persisted" =>
        \A r \in Range(pre["events"].items) :
            r.id \in FixedIds =>
                LET same == {i \in 1..Len(files["events"].items) :
                                 files["events"].items[i].id = r.id}
                IN  /\ Cardinality(same) = 1
                    /\ \A i \in same : files["events"].items[i].date = r.date

\* C9: every persisted batch has pairwise distinct ids.
C9_PersistedIdsDistinct ==
    \A d \in Kinds :
        stage[d] = "Persisted" =>
            \A i, j \in 1..Len(files[d].items) :
                i # j => files[d].items[i].id # files[d].items[j].id

\* C10: every persisted file is a list whose elements all have the required
\* fields of their record kind with acceptable enum values.
C10_PersistedConformsToSchema ==
    \A d \in Kinds :
        stage[d] = "Persisted" => SchemaAccepts(d, JsonLoad(files[d]))

----------------------------------------------------------------------------
(* Properties of the filter and sort of generate_future_events *)

\* the element is an object whose date parses
Parses(e) == IsObject(e) /\ Has(e, "date") /\ Strptime(e.date) # NoDate

\* C11: every event generate_future_events returns is dated after the
\* reference day; an event of the response dated on the reference day or
\* before it is not in the list returned, and one whose date parses and is
\* the next day or later is.
C11_RetainedIffAfterToday ==
    probe.out.kind = "array" =>
        /\ \A e \in Range(probe.out.items) :
               Strptime(e.date) # now /\ ~DayLess(Strptime(e.date), now)
        /\ \A e \in Range(probe.items) :
               Parses(e) =>
                   IF DayLess(PrevDay(Strptime(e.date)), now)
                   THEN e \notin Range(probe.out.items)
                   ELSE e \in Range(probe.out.items)

\* a list with an event of the reference day and one of the day after it
\* was filtered
C11_Witness ==
    /\ now = <<2026, 11, 15>>
    /\ Range(probe.items) = {EventToday, EventTomorrow}
    /\ probe.out = Arr(<<EventTomorrow>>)

\* C12: every event retained is dated inside the planning window, from the
\* first day of the current month to the last day of the next month.
C12_RetainedWithinWindow ==
    probe.out.kind = "array" =>
        \A e \in Range(probe.out.items) :
            /\ ~DayLess(Strptime(e.date), Strptime(start_date(now)))
            /\ ~DayLess(Strptime(end_date(now)), Strptime(e.date))

\* C13: an element whose date is missing or does not parse never makes
\* generate_future_events raise, whatever the element is: the filter
\* returns a list and the element is not in it.
C13_BadElementDiscarded ==
    probe.out # Unset =>
        /\ probe.out.kind = "array"
        /\ \A e \in Range(probe.items) :
               ~Parses(e) => e \notin Range(probe.out.items)

\* C14: the list generate_future_events returns is non-decreasing by the
\* date strings compared as text.
C14_SortedByDateString ==
    probe.out.kind = "array" =>
        \A i, j \in 1..Len(probe.out.items) :
            i < j => ~StrLess(probe.out.items[j].date, probe.out.items[i].date)

\* two events that came in descending order of date were both retained
C14_Witness ==
    /\ probe.out.kind = "array"
    /\ Len(probe.out.items) = 2
    /\ StrLess(probe.items[2].date, probe.items[1].date)
    /\ probe.out.items = <<probe.items[2], probe.items[1]>>

\* C15: the list generate_future_events returns is in ascending order of
\* the parsed dates.
C15_SortedChronologically ==
    probe.out.kind = "array" =>
        \A i, j \in 1..Len(probe.out.items) :
            i < j => ~DayLess(Strptime(probe.out.items[j].date),
                              Strptime(probe.out.items[i].date))

----------------------------------------------------------------------------
(* Properties of the extractors *)

\* the text is valid JSON alone, or between a pair of fences, with or
\* without the tag and whitespace around the fences
FenceCase(t) ==
    /\ t.body.kind # "invalid"
    /\ \/ t.lead = <<>> /\ t.trail = <<>>
       \/ /\ LStrip(t.lead) \in {<<"fence", "ws">>, <<"fence", "json", "ws">>}
          /\ RStrip(t.trail) = <<"ws", "fence">>

\* the text is commentary followed by valid JSON
ProseCase(t) ==
    t.body.kind # "invalid" /\ t.lead = <<"prose", "ws">> /\ t.trail = <<>>

\* C16: the extraction of auto_update.py, extract_json and
\* extract_json_from_response each return the parsed JSON text, the same
\* value, whether the text comes alone, between bare fences or
\* between fences with the json tag, with or without whitespace before the
\* opening fence and after the closing one.
C16_FencesDoNotChangeValue ==
    (xcase.done /\ FenceCase(xcase.text)) =>
        \A x \in {"inline", "extract_json", "extract_json_from_response"} :
            xcase.out[x] = xcase.text.body

\* C17: when commentary stands before the JSON, extraction restarts at the
\* first brace or bracket and returns the document, be it an object or an
\* array (of objects too), in main.py, main_v1_backup.py and
\* auto_update_robust.py.
C17_CommentaryPrefixRecovered ==
    (xcase.done /\ ProseCase(xcase.text)) =>
        \A x \in {"extract_json_from_response", "analyze_inline", "extract_json"} :
            xcase.out[x] = xcase.text.body

----------------------------------------------------------------------------
(* Properties of the calls to the generative service *)

\* C18: nothing is retried: a cycle calls the service at most once for
\* each dataset and an analysis request calls it at most once; a step that
\* failed made its one call and the cycle ended, a request that failed is
\* answered with an error after at most one call.
C18_NoRetry ==
    /\ \A d \in Kinds : calls[d] <= 1
    /\ \A d \in Kinds : stage[d] = "Failed" => (calls[d] = 1 /\ pc = "done")
    /\ req.reply.calls <= 1
    /\ (req.served /\ req.reply.status # 200) => req.reply.status \in {404, 500}

\* a generation step failed after its call, and an analysis request was
\* answered 500 after its call
C18_Witness ==
    /\ \E d \in Kinds : stage[d] = "Failed" /\ calls[d] = 1
    /\ req.served /\ req.reply.status = 500 /\ req.reply.calls = 1

\* C19: the datasets of a cycle are processed one after the other in the
\* order hot-trends, strategies, events: the service is called for a
\* dataset only once the one before it is written to its file, and at
\* most one dataset is between its generation and the end of its write.
C19_DatasetsInSequence ==
    /\ \A i \in 1..(Len(Order) - 1) :
           (calls[Order[i + 1]] > 0 \/ stage[Order[i + 1]] # "Idle") =>
               /\ stage[Order[i]] = "Persisted"
               /\ files[Order[i]] = Complete(batch[Order[i]])
    /\ Cardinality({d \in Kinds : stage[d] \in {"Generated", "Writing"}}) <= 1

\* the events batch is being written after the other two were persisted
C19_Witness ==
    stage["events"] = "Writing" /\ calls = [d \in Kinds |-> 1]

\* C20: on every analysis and regenerate endpoint a request whose id is
\* the id of no record of the stored dataset is answered 404 and the
\* service is not called, with or without a credential.
C20_UnknownIdIs404 ==
    (/\ req.served
     /\ \A i \in 1..Len(files[req.endpoint.kind].items) :
            LET rec == files[req.endpoint.kind].items[i]
            IN  Has(rec, "id") => rec.id # req.id)
        => (req.reply.status = 404 /\ req.reply.calls = 0)

----------------------------------------------------------------------------
(* Properties of the API *)

\* generate_ai_analysis was reached by the request served last
ReachedAnalysis ==
    /\ req.served
    /\ req.endpoint.app = "main"
    /\ req.reply.how \in {"no_key", "call_failed", "ok"}

\* C21: generate_ai_analysis calls the service with the key of the caller
\* when the caller sent a non-empty one and with the process-wide key
\* otherwise; when there is neither, the request ends with 500 and the
\* service is not called.
C21_CallerKeyOverridesDefault ==
    ReachedAnalysis =>
        /\ req.header => req.reply.key = "caller"
        /\ (~req.header /\ apiKey) => req.reply.key = "default"
        /\ (~req.header /\ ~apiKey) =>
               (req.reply.status = 500 /\ req.reply.calls = 0)
        /\ (req.header \/ apiKey) => req.reply.calls = 1

\* a request with its own key was served by a process that has a key too
C21_Witness ==
    /\ ReachedAnalysis
    /\ req.header /\ apiKey
    /\ req.reply.key = "caller" /\ req.reply.calls = 1

C23_ServingNeverWrites == [][files' = files]_vars

\* a GET and an analysis request were served over files that exist
C23_Witness ==
    /\ resp.kind \in Kinds /\ req.served /\ req.reply.status = 200
    /\ \A d \in Kinds : files[d] # Absent

\* the requests received for the stored record with a key to use
Credentialed ==
    {i \in 1..MaxRequests :
        /\ api.slot[i].state # "idle"
        /\ api.slot[i].id = TrendA.id
        /\ api.slot[i].header \/ apiKey}

\* C24: analysis requests received for the same stored record, each with a
\* key, make one service call each: the calls started are as many as these
\* requests, a request waits for no other, and the response of a request is
\* made of its own service result alone.
C24_OneCallPerRequest ==
    /\ api.svc = Cardinality(Credentialed)
    /\ \A i \in 1..MaxRequests :
           api.slot[i].state = "done" =>
               /\ api.slot[i].reply.calls = IF i \in Credentialed THEN 1 ELSE 0
               /\ i \in Credentialed =>
                      (api.slot[i].reply.status = 200
                          <=> api.slot[i].reply.out \in {"markdown", "json"})

\* every request for the record was answered, one with an analysis and one
\* with a failure of its own call
C24_Witness ==
    /\ \A i \in 1..MaxRequests : i \in Credentialed /\ api.slot[i].state = "done"
    /\ \E i, j \in 1..MaxRequests :
           api.slot[i].reply.status = 200 /\ api.slot[j].reply.status = 500
    /\ api.svc = MaxRequests

\* C25: a GET of a dataset whose file does not exist answers with the
\* empty list, and a GET of a dataset that is stored as a list answers 200
\* with that list.
C25_GetReturnsStoredBatch ==
    resp.kind \in Kinds =>
        (resp.loaded.kind = "array" => resp.status = 200)

\* C26: when all three datasets were persisted in the cycle,
\* update_data_files returns True.
C26_PersistedMeansSuccess ==
    (pc = "done" /\ \A d \in Kinds : stage[d] = "Persisted") => result = "True"

----------------------------------------------------------------------------
(* Properties of the planning window and of the reference day *)

\* the last day of the month after the month of the day
LastDayOfFollowingMonth(day) ==
    LET y == IF day[2] >= 12 THEN day[1] + 1 ELSE day[1]
        m == IF day[2] >= 12 THEN 1 ELSE day[2] + 1
    IN  <<y, m, DaysInMonth(y, m)>>

\* C27: whatever the day of the run, start_date is the first day of its
\* month and end_date is the last day of the month after, also across the
\* end of the year, so that start_date <= today <= end_date.
C27_WindowCoversTwoMonths ==
    run.at \in {"filter", "done"} =>
        /\ run.start_date = Strftime(<<run.today[1], run.today[2], 1>>)
        /\ run.end_date = Strftime(LastDayOfFollowingMonth(run.today))
        /\ ~StrLess(Strftime(run.today), run.start_date)
        /\ ~StrLess(run.end_date, Strftime(run.today))
        /\ ~DayLess(Strptime(run.end_date), run.today)

\* the window of a run in December of a year before a leap year
C27_Witness ==
    /\ run.at = "done"
    /\ run.today = <<2027, 12, 31>>
    /\ run.end_date = Strftime(<<2028, 1, 31>>)

\* C28: one run uses one reference day: TODAY, the day the window is
\* computed from and the day the events are filtered against are the same
\* calendar day, also when midnight passes during the run.
C28_OneReferenceDay ==
    run.at = "done" =>
        /\ run.TODAY = Strftime(run.today)
        /\ run.today = run.today_dt

----------------------------------------------------------------------------
(* Properties of the prompts *)

\* C29: for every kind and record, the prompt POST regenerate sends is the
\* prompt GET analyze sends for the record followed by the feedback suffix
\* when the feedback is not empty, and is that prompt exactly when it is
\* empty; the two endpoints of a kind ask for the same output format.
C29_RegenerateExtendsAnalyze ==
    (ask.analyze # <<>> /\ ask.regenerate # <<>>) =>
        /\ ask.analyze[1].suffix = ""
        /\ ask.regenerate[1].suffix = ask.feedback
        /\ ask.regenerate[1].prompt.raised = ask.analyze[1].prompt.raised
        /\ ask.regenerate[1].prompt.format = ask.analyze[1].prompt.format
        /\ ask.regenerate[1].prompt.template = ask.analyze[1].prompt.template
        /\ ~ask.analyze[1].prompt.raised =>
               ask.regenerate[1].prompt.values = ask.analyze[1].prompt.values

----------------------------------------------------------------------------
(* Properties of the watchlist search *)

\* the stocks of the request the handler may query
Queried == 1..(IF wl.n < 10 THEN wl.n ELSE 10)

\* the queried stocks whose response carries an event, in request order
Answered ==
    LET Good(i) == i \notin {wl.bad, wl.empty}
    IN  SelectSeq([i \in Queried |-> i], Good)

\* C30: get_watchlist_events queries at most the first ten stocks of the
\* request, one call each in request order; an empty list is answered with
\* no events, without a call and without a look at the key; a response
\* that is not valid JSON skips that stock alone; an exception of a call
\* ends the request with 500 and no events.
C30_WatchlistCapSkipAndFail ==
    wl.served =>
        /\ wl.n = 0 =>
               /\ wl.reply.status = 200 /\ wl.reply.key = "unchecked"
               /\ wl.reply.called = <<>> /\ wl.reply.events = <<>>
        /\ (wl.n > 0 /\ ~wl.header /\ ~apiKey) =>
               wl.reply.status = 500 /\ wl.reply.called = <<>>
        /\ (wl.n > 0 /\ (wl.header \/ apiKey)) =>
               /\ wl.reply.called =
                      [i \in (IF wl.raises \in Queried THEN 1..wl.raises
                              ELSE Queried) |-> i]
               /\ wl.raises \in Queried =>
                      wl.reply.status = 500 /\ wl.reply.events = <<>>
               /\ wl.raises \notin Queried =>
                      /\ wl.reply.status = 200
                      /\ Len(wl.reply.events) = Len(Answered)
                      /\ \A k \in 1..Len(Answered) :
                             wl.reply.events[k].relatedStocks = <<Answered[k]>>

\* eleven stocks were requested, ten were queried, and the one answered
\* with text that is not JSON is the only one without an event
C30_Witness ==
    /\ wl.served /\ wl.n = 11 /\ wl.raises = 0
    /\ wl.bad \in 1..10 /\ wl.empty = 0
    /\ Len(wl.reply.called) = 10 /\ Len(wl.reply.events) = 9

====
